---- MODULE Spec2Model ----
(***************************************************************************)
(* Lcode.py: a tabbed C editor built on Qt.                                *)
(*                                                                         *)
(*  - CHighlighter: an ordered list of (QRegExp, format) rules applied to  *)
(*    one block of text; every match calls setFormat, which overwrites the *)
(*    format of the characters it covers.                                  *)
(*  - CodeEditor: a plain-text editor whose left viewport margin holds the *)
(*    line numbers.                                                        *)
(*  - MainWindow: tabs of editors, a status label with the caret position, *)
(*    open/save, and build-and-run.                                        *)
(*                                                                         *)
(* Positions in a block are 0-based as in the code; text[p + 1] is the     *)
(* character at position p.                                                *)
(***************************************************************************)
EXTENDS Integers, Sequences, FiniteSets, TLC

VARIABLES
  \* CHighlighter.highlightBlock
  text,         \* the block's text, a sequence of UTF-16 code units
  ruleNo,       \* index in rules of the (pat, fmt) pair of the for loop
  idx,          \* i
  formats,      \* the block's per-character format after the setFormat calls so far
  calls,        \* the setFormat calls made so far
  pc,           \* "for": about to take the next rule; "while": in the inner loop
  \* CodeEditor
  blockCount,   \* self.blockCount()
  margin,       \* left viewport margin
  advance9,     \* self.fontMetrics().horizontalAdvance('9')
  \* MainWindow
  tabs,         \* self.tabs: the editors, in tab order
  current,      \* self.tabs.currentIndex(), 1-based; 0 when there is no tab
  cursorLabel,  \* text of self.cursorLabel
  disk,         \* content of each path on disk, NoFile when absent
  lastBuild     \* what the last gcc invocation compiled, NoBuild before any

hlVars  == <<text, ruleNo, idx, formats, calls, pc>>
edVars  == <<blockCount, margin, advance9>>
winVars == <<tabs, current, cursorLabel, disk, lastBuild>>
vars    == <<text, ruleNo, idx, formats, calls, pc, blockCount, margin, advance9,
             tabs, current, cursorLabel, disk, lastBuild>>

----------------------------------------------------------------------------
(* Characters *)

\* A block's text is a QString: a sequence of UTF-16 code units, each a
\* number in 0..65535.  The patterns see code units, so a character outside
\* the basic plane is two surrogates, neither a letter nor a space.

\* the printable ASCII characters from the space (32) to the underscore (95)
PrintableLow ==
  <<
    " ", "!", "\"", "#", "$", "%", "&", "'", "(", ")", "*", "+", ",", "-", ".", "/",
    "0", "1", "2", "3", "4", "5", "6", "7", "8", "9", ":", ";", "<", "=", ">", "?",
    "@", "A", "B", "C", "D", "E", "F", "G", "H", "I", "J", "K", "L", "M", "N", "O",
    "P", "Q", "R", "S", "T", "U", "V", "W", "X", "Y", "Z", "[", "\\", "]", "^", "_"
  >>

\* the printable ASCII characters from a (97) to the tilde (126)
PrintableHigh ==
  <<
    "a", "b", "c", "d", "e", "f", "g", "h", "i", "j", "k", "l", "m", "n", "o", "p",
    "q", "r", "s", "t", "u", "v", "w", "x", "y", "z", "{", "|", "}", "~"
  >>

\* the code unit of a printable ASCII character
ord(c) ==
  IF \E k \in 1..Len(PrintableLow) : PrintableLow[k] = c
  THEN 31 + (CHOOSE k \in 1..Len(PrintableLow) : PrintableLow[k] = c)
  ELSE 96 + (CHOOSE k \in 1..Len(PrintableHigh) : PrintableHigh[k] = c)

\* the code units of a word written in printable ASCII characters
Units(w) == [k \in 1..Len(w) |-> ord(w[k])]

Lower == ord("a")..ord("z")

Upper == ord("A")..ord("Z")

Digits == ord("0")..ord("9")

\* the control characters U+0009..U+000D and U+0085
SpaceControls == (9..13) \cup {133}

\* the characters of the Unicode categories Zs, Zl and Zp
Separators ==
  {32, 160, 5760} \cup (8192..8202) \cup {8232, 8233, 8239, 8287, 12288}

\* \s
Whitespace == SpaceControls \cup Separators

\* [A-Za-z_]
IdentStart == Lower \cup Upper \cup {ord("_")}

\* [A-Za-z0-9_]
IdentChars == IdentStart \cup Digits

\* the ranges of the code units above ASCII whose general category is a
\* letter (L*), a mark (M*) or a number (N*) in Unicode 13.0, the version of
\* the character tables of Qt 5.15
WordRanges ==
  <<
    <<170, 170>>, <<178, 179>>, <<181, 181>>, <<185, 186>>, <<188, 190>>, <<192, 214>>,
    <<216, 246>>, <<248, 705>>, <<710, 721>>, <<736, 740>>, <<748, 748>>, <<750, 750>>,
    <<768, 884>>, <<886, 887>>, <<890, 893>>, <<895, 895>>, <<902, 902>>, <<904, 906>>,
    <<908, 908>>, <<910, 929>>, <<931, 1013>>, <<1015, 1153>>, <<1155, 1327>>,
    <<1329, 1366>>, <<1369, 1369>>, <<1376, 1416>>, <<1425, 1469>>, <<1471, 1471>>,
    <<1473, 1474>>, <<1476, 1477>>, <<1479, 1479>>, <<1488, 1514>>, <<1519, 1522>>,
    <<1552, 1562>>, <<1568, 1641>>, <<1646, 1747>>, <<1749, 1756>>, <<1759, 1768>>,
    <<1770, 1788>>, <<1791, 1791>>, <<1808, 1866>>, <<1869, 1969>>, <<1984, 2037>>,
    <<2042, 2042>>, <<2045, 2045>>, <<2048, 2093>>, <<2112, 2139>>, <<2144, 2154>>,
    <<2208, 2228>>, <<2230, 2247>>, <<2259, 2273>>, <<2275, 2403>>, <<2406, 2415>>,
    <<2417, 2435>>, <<2437, 2444>>, <<2447, 2448>>, <<2451, 2472>>, <<2474, 2480>>,
    <<2482, 2482>>, <<2486, 2489>>, <<2492, 2500>>, <<2503, 2504>>, <<2507, 2510>>,
    <<2519, 2519>>, <<2524, 2525>>, <<2527, 2531>>, <<2534, 2545>>, <<2548, 2553>>,
    <<2556, 2556>>, <<2558, 2558>>, <<2561, 2563>>, <<2565, 2570>>, <<2575, 2576>>,
    <<2579, 2600>>, <<2602, 2608>>, <<2610, 2611>>, <<2613, 2614>>, <<2616, 2617>>,
    <<2620, 2620>>, <<2622, 2626>>, <<2631, 2632>>, <<2635, 2637>>, <<2641, 2641>>,
    <<2649, 2652>>, <<2654, 2654>>, <<2662, 2677>>, <<2689, 2691>>, <<2693, 2701>>,
    <<2703, 2705>>, <<2707, 2728>>, <<2730, 2736>>, <<2738, 2739>>, <<2741, 2745>>,
    <<2748, 2757>>, <<2759, 2761>>, <<2763, 2765>>, <<2768, 2768>>, <<2784, 2787>>,
    <<2790, 2799>>, <<2809, 2815>>, <<2817, 2819>>, <<2821, 2828>>, <<2831, 2832>>,
    <<2835, 2856>>, <<2858, 2864>>, <<2866, 2867>>, <<2869, 2873>>, <<2876, 2884>>,
    <<2887, 2888>>, <<2891, 2893>>, <<2901, 2903>>, <<2908, 2909>>, <<2911, 2915>>,
    <<2918, 2927>>, <<2929, 2935>>, <<2946, 2947>>, <<2949, 2954>>, <<2958, 2960>>,
    <<2962, 2965>>, <<2969, 2970>>, <<2972, 2972>>, <<2974, 2975>>, <<2979, 2980>>,
    <<2984, 2986>>, <<2990, 3001>>, <<3006, 3010>>, <<3014, 3016>>, <<3018, 3021>>,
    <<3024, 3024>>, <<3031, 3031>>, <<3046, 3058>>, <<3072, 3084>>, <<3086, 3088>>,
    <<3090, 3112>>, <<3114, 3129>>, <<3133, 3140>>, <<3142, 3144>>, <<3146, 3149>>,
    <<3157, 3158>>, <<3160, 3162>>, <<3168, 3171>>, <<3174, 3183>>, <<3192, 3198>>,
    <<3200, 3203>>, <<3205, 3212>>, <<3214, 3216>>, <<3218, 3240>>, <<3242, 3251>>,
    <<3253, 3257>>, <<3260, 3268>>, <<3270, 3272>>, <<3274, 3277>>, <<3285, 3286>>,
    <<3294, 3294>>, <<3296, 3299>>, <<3302, 3311>>, <<3313, 3314>>, <<3328, 3340>>,
    <<3342, 3344>>, <<3346, 3396>>, <<3398, 3400>>, <<3402, 3406>>, <<3412, 3427>>,
    <<3430, 3448>>, <<3450, 3455>>, <<3457, 3459>>, <<3461, 3478>>, <<3482, 3505>>,
    <<3507, 3515>>, <<3517, 3517>>, <<3520, 3526>>, <<3530, 3530>>, <<3535, 3540>>,
    <<3542, 3542>>, <<3544, 3551>>, <<3558, 3567>>, <<3570, 3571>>, <<3585, 3642>>,
    <<3648, 3662>>, <<3664, 3673>>, <<3713, 3714>>, <<3716, 3716>>, <<3718, 3722>>,
    <<3724, 3747>>, <<3749, 3749>>, <<3751, 3773>>, <<3776, 3780>>, <<3782, 3782>>,
    <<3784, 3789>>, <<3792, 3801>>, <<3804, 3807>>, <<3840, 3840>>, <<3864, 3865>>,
    <<3872, 3891>>, <<3893, 3893>>, <<3895, 3895>>, <<3897, 3897>>, <<3902, 3911>>,
    <<3913, 3948>>, <<3953, 3972>>, <<3974, 3991>>, <<3993, 4028>>, <<4038, 4038>>,
    <<4096, 4169>>, <<4176, 4253>>, <<4256, 4293>>, <<4295, 4295>>, <<4301, 4301>>,
    <<4304, 4346>>, <<4348, 4680>>, <<4682, 4685>>, <<4688, 4694>>, <<4696, 4696>>,
    <<4698, 4701>>, <<4704, 4744>>, <<4746, 4749>>, <<4752, 4784>>, <<4786, 4789>>,
    <<4792, 4798>>, <<4800, 4800>>, <<4802, 4805>>, <<4808, 4822>>, <<4824, 4880>>,
    <<4882, 4885>>, <<4888, 4954>>, <<4957, 4959>>, <<4969, 4988>>, <<4992, 5007>>,
    <<5024, 5109>>, <<5112, 5117>>, <<5121, 5740>>, <<5743, 5759>>, <<5761, 5786>>,
    <<5792, 5866>>, <<5870, 5880>>, <<5888, 5900>>, <<5902, 5908>>, <<5920, 5940>>,
    <<5952, 5971>>, <<5984, 5996>>, <<5998, 6000>>, <<6002, 6003>>, <<6016, 6099>>,
    <<6103, 6103>>, <<6108, 6109>>, <<6112, 6121>>, <<6128, 6137>>, <<6155, 6157>>,
    <<6160, 6169>>, <<6176, 6264>>, <<6272, 6314>>, <<6320, 6389>>, <<6400, 6430>>,
    <<6432, 6443>>, <<6448, 6459>>, <<6470, 6509>>, <<6512, 6516>>, <<6528, 6571>>,
    <<6576, 6601>>, <<6608, 6618>>, <<6656, 6683>>, <<6688, 6750>>, <<6752, 6780>>,
    <<6783, 6793>>, <<6800, 6809>>, <<6823, 6823>>, <<6832, 6848>>, <<6912, 6987>>,
    <<6992, 7001>>, <<7019, 7027>>, <<7040, 7155>>, <<7168, 7223>>, <<7232, 7241>>,
    <<7245, 7293>>, <<7296, 7304>>, <<7312, 7354>>, <<7357, 7359>>, <<7376, 7378>>,
    <<7380, 7418>>, <<7424, 7673>>, <<7675, 7957>>, <<7960, 7965>>, <<7968, 8005>>,
    <<8008, 8013>>, <<8016, 8023>>, <<8025, 8025>>, <<8027, 8027>>, <<8029, 8029>>,
    <<8031, 8061>>, <<8064, 8116>>, <<8118, 8124>>, <<8126, 8126>>, <<8130, 8132>>,
    <<8134, 8140>>, <<8144, 8147>>, <<8150, 8155>>, <<8160, 8172>>, <<8178, 8180>>,
    <<8182, 8188>>, <<8304, 8305>>, <<8308, 8313>>, <<8319, 8329>>, <<8336, 8348>>,
    <<8400, 8432>>, <<8450, 8450>>, <<8455, 8455>>, <<8458, 8467>>, <<8469, 8469>>,
    <<8473, 8477>>, <<8484, 8484>>, <<8486, 8486>>, <<8488, 8488>>, <<8490, 8493>>,
    <<8495, 8505>>, <<8508, 8511>>, <<8517, 8521>>, <<8526, 8526>>, <<8528, 8585>>,
    <<9312, 9371>>, <<9450, 9471>>, <<10102, 10131>>, <<11264, 11310>>, <<11312, 11358>>,
    <<11360, 11492>>, <<11499, 11507>>, <<11517, 11517>>, <<11520, 11557>>, <<11559, 11559>>,
    <<11565, 11565>>, <<11568, 11623>>, <<11631, 11631>>, <<11647, 11670>>, <<11680, 11686>>,
    <<11688, 11694>>, <<11696, 11702>>, <<11704, 11710>>, <<11712, 11718>>, <<11720, 11726>>,
    <<11728, 11734>>, <<11736, 11742>>, <<11744, 11775>>, <<11823, 11823>>, <<12293, 12295>>,
    <<12321, 12335>>, <<12337, 12341>>, <<12344, 12348>>, <<12353, 12438>>, <<12441, 12442>>,
    <<12445, 12447>>, <<12449, 12538>>, <<12540, 12543>>, <<12549, 12591>>, <<12593, 12686>>,
    <<12690, 12693>>, <<12704, 12735>>, <<12784, 12799>>, <<12832, 12841>>, <<12872, 12879>>,
    <<12881, 12895>>, <<12928, 12937>>, <<12977, 12991>>, <<13312, 19903>>, <<19968, 40956>>,
    <<40960, 42124>>, <<42192, 42237>>, <<42240, 42508>>, <<42512, 42539>>, <<42560, 42610>>,
    <<42612, 42621>>, <<42623, 42737>>, <<42775, 42783>>, <<42786, 42888>>, <<42891, 42943>>,
    <<42946, 42954>>, <<42997, 43047>>, <<43052, 43052>>, <<43056, 43061>>, <<43072, 43123>>,
    <<43136, 43205>>, <<43216, 43225>>, <<43232, 43255>>, <<43259, 43259>>, <<43261, 43309>>,
    <<43312, 43347>>, <<43360, 43388>>, <<43392, 43456>>, <<43471, 43481>>, <<43488, 43518>>,
    <<43520, 43574>>, <<43584, 43597>>, <<43600, 43609>>, <<43616, 43638>>, <<43642, 43714>>,
    <<43739, 43741>>, <<43744, 43759>>, <<43762, 43766>>, <<43777, 43782>>, <<43785, 43790>>,
    <<43793, 43798>>, <<43808, 43814>>, <<43816, 43822>>, <<43824, 43866>>, <<43868, 43881>>,
    <<43888, 44010>>, <<44012, 44013>>, <<44016, 44025>>, <<44032, 55203>>, <<55216, 55238>>,
    <<55243, 55291>>, <<63744, 64109>>, <<64112, 64217>>, <<64256, 64262>>, <<64275, 64279>>,
    <<64285, 64296>>, <<64298, 64310>>, <<64312, 64316>>, <<64318, 64318>>, <<64320, 64321>>,
    <<64323, 64324>>, <<64326, 64433>>, <<64467, 64829>>, <<64848, 64911>>, <<64914, 64967>>,
    <<65008, 65019>>, <<65024, 65039>>, <<65056, 65071>>, <<65136, 65140>>, <<65142, 65276>>,
    <<65296, 65305>>, <<65313, 65338>>, <<65345, 65370>>, <<65382, 65470>>, <<65474, 65479>>,
    <<65482, 65487>>, <<65490, 65495>>, <<65498, 65500>>
  >>

\* a word character of \b: a letter, a number, a mark or _ ; in ASCII these
\* are [A-Za-z0-9_]
IsWordChar(c) ==
  \/ c \in IdentChars
  \/ /\ c > 127
     /\ \E k \in 1..Len(WordRanges) : WordRanges[k][1] <= c /\ c <= WordRanges[k][2]

\* the code unit at position p, -1 outside the text
Ch(t, p) == IF p >= 0 /\ p < Len(t) THEN t[p + 1] ELSE -1

\* \b at position p: exactly one of the two neighbours is a word character
WordBoundary(t, p) == IsWordChar(Ch(t, p - 1)) # IsWordChar(Ch(t, p))

\* first position q >= p whose character is not in S (the end of the text if none)
RECURSIVE SkipWhile(_, _, _)
SkipWhile(t, p, S) ==
  IF p < Len(t) /\ t[p + 1] \in S THEN SkipWhile(t, p + 1, S) ELSE p

\* first position q >= p whose character is in S (the end of the text if none)
RECURSIVE SkipUntil(_, _, _)
SkipUntil(t, p, S) ==
  IF p < Len(t) /\ t[p + 1] \notin S THEN SkipUntil(t, p + 1, S) ELSE p

----------------------------------------------------------------------------
(* CHighlighter.init_rules *)

kws ==
  <<
    <<"i","f">>, <<"e","l","s","e">>, <<"f","o","r">>, <<"w","h","i","l","e">>, <<"d","o">>,
    <<"s","w","i","t","c","h">>, <<"c","a","s","e">>, <<"b","r","e","a","k">>,
    <<"c","o","n","t","i","n","u","e">>, <<"r","e","t","u","r","n">>, <<"g","o","t","o">>,
    <<"s","i","z","e","o","f">>, <<"s","t","r","u","c","t">>, <<"u","n","i","o","n">>,
    <<"e","n","u","m">>, <<"t","y","p","e","d","e","f">>, <<"s","t","a","t","i","c">>,
    <<"c","o","n","s","t">>, <<"v","o","l","a","t","i","l","e">>, <<"e","x","t","e","r","n">>,
    <<"r","e","g","i","s","t","e","r">>, <<"i","n","l","i","n","e">>,
    <<"r","e","s","t","r","i","c","t">>
  >>

types ==
  <<
    <<"i","n","t">>, <<"l","o","n","g">>, <<"s","h","o","r","t">>, <<"c","h","a","r">>,
    <<"f","l","o","a","t">>, <<"d","o","u","b","l","e">>, <<"v","o","i","d">>,
    <<"s","i","g","n","e","d">>, <<"u","n","s","i","g","n","e","d">>, <<"b","o","o","l">>
  >>

\* one (QRegExp, format) pair: the shape of the pattern, its word or quote, the format
Rule(kind, arg, fmt) == [kind |-> kind, arg |-> arg, fmt |-> fmt]

\* self.rules, in the order init_rules appends them
rules ==
  [n \in 1..Len(kws) |-> Rule("word", Units(kws[n]), "Keyword")] \o
  [n \in 1..Len(types) |-> Rule("word", Units(types[n]), "Type")] \o
  << Rule("number", <<>>, "Number"),
     Rule("quoted", ord("\""), "String"),
     Rule("quoted", ord("'"), "String"),
     Rule("preproc", <<>>, "Preprocessor"),
     Rule("linecomment", <<>>, "Comment"),
     Rule("blockcomment", <<>>, "Comment"),
     Rule("callable", <<>>, "CallableName") >>

NRules == Len(rules)

\* positions of the rules in self.rules
NumberRule == Len(kws) + Len(types) + 1
DQuoteRule == NumberRule + 1
SQuoteRule == NumberRule + 2
PreprocRule == NumberRule + 3
LineCommentRule == NumberRule + 4
BlockCommentRule == NumberRule + 5
CallableRule == NumberRule + 6

----------------------------------------------------------------------------
(* The patterns: the length of the match of each pattern that starts at    *)
(* position p, or -1 when the pattern does not match there.  QRegExp       *)
(* quantifiers are greedy.                                                 *)

\* \bw\b
WordLen(t, p, w) ==
  IF /\ p + Len(w) <= Len(t)
     /\ SubSeq(t, p + 1, p + Len(w)) = w
     /\ WordBoundary(t, p)
     /\ WordBoundary(t, p + Len(w))
  THEN Len(w)
  ELSE -1

\* \b[0-9]+(\.[0-9]+)?\b
NumberLen(t, p) ==
  LET q == SkipWhile(t, p, Digits)          \* end of the integer part
      r == SkipWhile(t, q + 1, Digits)      \* end of the fraction, if there is a dot at q
  IN IF ~WordBoundary(t, p) \/ q = p THEN -1
     ELSE IF Ch(t, q) = ord(".") /\ r > q + 1 /\ WordBoundary(t, r) THEN r - p
     ELSE IF WordBoundary(t, q) THEN q - p
     ELSE -1

\* QuotedScan for a pattern without the escape group, q[^q]*q: a backslash is
\* an ordinary character and the first quote closes the literal
RECURSIVE QuotedScanNoEscape(_, _, _)
QuotedScanNoEscape(t, j, q) ==
  IF j >= Len(t) THEN -1
  ELSE IF t[j + 1] = q THEN j + 1
  ELSE QuotedScanNoEscape(t, j + 1, q)

\* after the opening quote: [^q\\]*(\\.[^q\\]*)*q, scanning from position j;
\* the position just after the closing quote, or -1
RECURSIVE QuotedScan(_, _, _)
QuotedScan(t, j, q) ==
  IF j >= Len(t) THEN -1
  ELSE IF t[j + 1] = q THEN j + 1
  ELSE IF t[j + 1] = ord("\\") THEN (IF j + 1 >= Len(t) THEN -1 ELSE QuotedScan(t, j + 2, q))
  ELSE QuotedScan(t, j + 1, q)

\* "[^"\\]*(\\.[^"\\]*)*" and '[^'\\]*(\\.[^'\\]*)*'
QuotedLen(t, p, q) ==
  IF Ch(t, p) # q THEN -1
  ELSE LET e == QuotedScan(t, p + 1, q) IN IF e < 0 THEN -1 ELSE e - p

\* ^\s*#.* ; indexIn's caret mode is CaretAtZero, so ^ matches at position 0 only
PreprocLen(t, p) ==
  IF p = 0 /\ Ch(t, SkipWhile(t, 0, Whitespace)) = ord("#") THEN Len(t) ELSE -1

\* LineCommentLen with the line terminator counted in the match
LineCommentLenWithTerminator(t, p) ==
  IF Ch(t, p) = ord("/") /\ Ch(t, p + 1) = ord("/") THEN SkipUntil(t, p + 2, {10}) + 1 - p ELSE -1

\* //[^\n]*
LineCommentLen(t, p) ==
  IF Ch(t, p) = ord("/") /\ Ch(t, p + 1) = ord("/") THEN SkipUntil(t, p + 2, {10}) - p ELSE -1

\* /\*.*?\*/ : QRegExp has no lazy quantifiers; a quantifier that follows a
\* quantifier is a syntax error ("bad repetition syntax"), the pattern is not
\* valid and an invalid QRegExp never matches
BlockCommentLen(t, p) == -1

\* \b[A-Za-z_][A-Za-z0-9_]*(?=\s*\() ; the lookahead is not part of the match
CallableLen(t, p) ==
  LET q == SkipWhile(t, p, IdentChars)
  IN IF /\ WordBoundary(t, p)
        /\ Ch(t, p) \in IdentStart
        /\ Ch(t, SkipWhile(t, q, Whitespace)) = ord("(")
     THEN q - p
     ELSE -1

\* the length of rule's match at position p, -1 when there is none
MatchLenAt(rule, t, p) ==
  CASE rule.kind = "word"         -> WordLen(t, p, rule.arg)
    [] rule.kind = "number"       -> NumberLen(t, p)
    [] rule.kind = "quoted"       -> QuotedLen(t, p, rule.arg)
    [] rule.kind = "preproc"      -> PreprocLen(t, p)
    [] rule.kind = "linecomment"  -> LineCommentLen(t, p)
    [] rule.kind = "blockcomment" -> BlockCommentLen(t, p)
    [] rule.kind = "callable"     -> CallableLen(t, p)

\* pat.indexIn(text, from): the first position >= from where pat matches, or -1
indexIn(rule, t, from) ==
  LET hits == {p \in from..Len(t) : MatchLenAt(rule, t, p) >= 0}
  IN IF hits = {} THEN -1 ELSE CHOOSE p \in hits : \A o \in hits : p <= o

\* pat.matchedLength() after an indexIn that returned i
matchedLength(rule, t, i) == IF i < 0 THEN -1 ELSE MatchLenAt(rule, t, i)

\* QSyntaxHighlighter.setFormat(start, count, fmt): stamps fmt over
\* [start, start + count), clipped to the block; earlier formats are overwritten
setFormat(fc, start, count, fmt) ==
  IF start < 0 \/ start >= Len(fc) THEN fc
  ELSE [k \in 1..Len(fc) |->
          IF k - 1 >= start /\ k - 1 < start + count THEN fmt ELSE fc[k]]

----------------------------------------------------------------------------
(* Block texts *)

MaxTokens == 3

Tokens ==
  { Units(w) : w \in
      { <<"i","n","t">>, <<"s","i","z","e","o","f">>, <<"x">>, <<"(">>, <<" ">>,
        <<"/","/">>, <<"/","*">>, <<"*","/">>, <<"\"">>, <<"\\">>, <<"5">>, <<"#">>,
        <<"'">>, <<".">>, <<"i","f">> } }
  \cup { <<12>>, <<233>>, <<946>> }

\* int x = sizeof(x);
ExKeyword ==
  Units(<<
    "i", "n", "t", " ", "x", " ", "=", " ", "s", "i", "z", "e", "o", "f", "(", "x", ")", ";"
  >>)

\* /* a */ int x; /* b */
ExTwoComments ==
  Units(<<
    "/", "*", " ", "a", " ", "*", "/", " ", "i", "n", "t", " ", "x", ";", " ", "/", "*", " ",
    "b", " ", "*", "/"
  >>)

\* x = 5; // int y
ExLineComment ==
  Units(<<
    "x", " ", "=", " ", "5", ";", " ", "/", "/", " ", "i", "n", "t", " ", "y"
  >>)

\* a = "he said \"hi\"";
ExEscaped ==
  Units(<<
    "a", " ", "=", " ", "\"", "h", "e", " ", "s", "a", "i", "d", " ", "\\", "\"", "h", "i",
    "\\", "\"", "\"", ";"
  >>)

\* // if (x) 12
ExCommentCall ==
  Units(<<
    "/", "/", " ", "i", "f", " ", "(", "x", ")", " ", "1", "2"
  >>)

\*   #define N 10
ExPreproc ==
  Units(<<
    " ", " ", "#", "d", "e", "f", "i", "n", "e", " ", "N", " ", "1", "0"
  >>)

\* foo (1.5, '\'')
ExCall ==
  Units(<<
    "f", "o", "o", " ", "(", "1", ".", "5", ",", " ", "'", "\\", "'", "'", ")"
  >>)

Examples ==
  {ExKeyword, ExTwoComments, ExLineComment, ExEscaped, ExCommentCall, ExPreproc, ExCall}

RECURSIVE Concat(_)
Concat(ts) == IF ts = <<>> THEN <<>> ELSE Head(ts) \o Concat(Tail(ts))

\* the texts highlightBlock is run on
Texts ==
  Examples \cup
  {Concat(ts) : ts \in UNION {[1..n -> Tokens] : n \in 0..MaxTokens}}

----------------------------------------------------------------------------
(* CHighlighter.highlightBlock *)

NoFormat == "None"

\* the editor and the window are not part of a highlighting run
EdIdle == blockCount = 1 /\ margin = 0 /\ advance9 = 0
WinIdle ==
  tabs = <<>> /\ current = 0 /\ cursorLabel = <<>> /\ disk = <<>> /\ lastBuild = <<>>

InitHL ==
  /\ text \in Texts
  /\ ruleNo = 1
  /\ idx = -1
  /\ formats = [k \in 1..Len(text) |-> NoFormat]
  /\ calls = <<>>
  /\ pc = "for"
  /\ EdIdle
  /\ WinIdle

\* where the loops go once i is known: into the while body when i >= 0, else
\* on to the next rule, or out of the for loop after the last one
AfterIndexIn(i) ==
  /\ idx' = i
  /\ IF i >= 0
     THEN pc' = "while" /\ ruleNo' = ruleNo
     ELSE /\ ruleNo' = ruleNo + 1
          /\ pc' = IF ruleNo + 1 > NRules THEN "done" ELSE "for"

\* for pat, fmt in self.rules: i = pat.indexIn(text)
ForRule ==
  /\ pc = "for"
  /\ AfterIndexIn(indexIn(rules[ruleNo], text, 0))
  /\ UNCHANGED <<text, formats, calls>>
  /\ UNCHANGED edVars /\ UNCHANGED winVars

\* WhileBody with the search resumed at i instead of i + l
WhileBodyNoAdvance ==
  /\ pc = "while"
  /\ idx >= 0
  /\ LET rule == rules[ruleNo]
         l == matchedLength(rule, text, idx)
     IN /\ formats' = setFormat(formats, idx, l, rule.fmt)
        /\ calls' = Append(calls, [rule |-> ruleNo, start |-> idx, len |-> l,
                                   fmt |-> rule.fmt])
        /\ AfterIndexIn(indexIn(rule, text, idx))
  /\ UNCHANGED text
  /\ UNCHANGED edVars /\ UNCHANGED winVars

\* while i >= 0: l = pat.matchedLength(); self.setFormat(i, l, fmt);
\*               i = pat.indexIn(text, i + l)
WhileBody ==
  /\ pc = "while"
  /\ idx >= 0
  /\ LET rule == rules[ruleNo]
         l == matchedLength(rule, text, idx)
     IN /\ formats' = setFormat(formats, idx, l, rule.fmt)
        /\ calls' = Append(calls, [rule |-> ruleNo, start |-> idx, len |-> l,
                                   fmt |-> rule.fmt])
        /\ AfterIndexIn(indexIn(rule, text, idx + l))
  /\ UNCHANGED text
  /\ UNCHANGED edVars /\ UNCHANGED winVars

NextHL == ForRule \/ WhileBody

SpecHL == InitHL /\ [][NextHL]_vars

----------------------------------------------------------------------------
(* CodeEditor: the line-number gutter *)

MaxBlocks == 110
MaxAdvance == 2

\* str(n) for n >= 0: the decimal digits of n
RECURSIVE str(_)
str(n) ==
  IF n < 10 THEN <<ord("0") + n>>
  ELSE str(n \div 10) \o <<ord("0") + (n % 10)>>

max(a, b) == IF a >= b THEN a ELSE b

\* lineNumberAreaWidth with the digits of the last block number, blockCount - 1
lineNumberAreaWidthOfLastNumber(bc, adv) ==
  LET digits == Len(str(max(1, bc - 1)))
      space == 3 + adv * digits
  IN space

\* CodeEditor.lineNumberAreaWidth, for a block count and the advance of '9'
lineNumberAreaWidth(bc, adv) ==
  LET digits == Len(str(max(1, bc)))
      space == 3 + adv * digits
  IN space

\* CodeEditor.updateLineNumberAreaWidth: setViewportMargins(lineNumberAreaWidth(), ...)
updateLineNumberAreaWidth(bc) == margin' = lineNumberAreaWidth(bc, advance9)

HLIdle ==
  /\ text = <<>> /\ ruleNo = 0 /\ idx = -1 /\ formats = <<>> /\ calls = <<>>
  /\ pc = "idle"

\* CodeEditor.__init__: an empty document has one block
InitEd ==
  /\ advance9 \in 1..MaxAdvance
  /\ blockCount = 1
  /\ margin = lineNumberAreaWidth(1, advance9)
  /\ HLIdle
  /\ WinIdle

\* k lines are inserted; blockCountChanged calls updateLineNumberAreaWidth
InsertBlocks ==
  \E k \in 1..MaxBlocks :
    /\ blockCount + k <= MaxBlocks
    /\ blockCount' = blockCount + k
    /\ updateLineNumberAreaWidth(blockCount')
    /\ UNCHANGED advance9
    /\ UNCHANGED hlVars /\ UNCHANGED winVars

\* k lines are deleted; a document keeps at least one block
RemoveBlocks ==
  \E k \in 1..MaxBlocks :
    /\ blockCount - k >= 1
    /\ blockCount' = blockCount - k
    /\ updateLineNumberAreaWidth(blockCount')
    /\ UNCHANGED advance9
    /\ UNCHANGED hlVars /\ UNCHANGED winVars

\* CodeEditor.updateLineNumberArea, on updateRequest(rect, dy): the width is
\* set again when rect contains the viewport
UpdateLineNumberArea ==
  \E containsViewport \in BOOLEAN :
    /\ IF containsViewport
       THEN updateLineNumberAreaWidth(blockCount)
       ELSE UNCHANGED margin
    /\ UNCHANGED <<blockCount, advance9>>
    /\ UNCHANGED hlVars /\ UNCHANGED winVars

NextEd == InsertBlocks \/ RemoveBlocks \/ UpdateLineNumberArea

SpecEd == InitEd /\ [][NextEd]_vars

----------------------------------------------------------------------------
(* MainWindow *)

MaxTabs == 2

\* characters a visual line of an editor holds before the text wraps
\* (QPlainTextEdit wraps at the widget width by default)
WrapCols == 2

NoPath == "None"
Paths == {"a.c"}
\* no file at a path: not a text, which has at least one block
NoFile == <<>>

\* document texts, as sequences of blocks: the empty document of a new
\* editor, and a two-block document whose first block is longer than a
\* visual line
EmptyText == << <<>> >>
LongText == << Units(<<"a", "b", "c">>), <<>> >>
DocTexts == {EmptyText, LongText}

\* a CodeEditor: its file_path, its text and its caret (textCursor())
Editor(path, t, b, o) == [file_path |-> path, text |-> t, block |-> b, pos |-> o]

\* no gcc invocation yet
NoBuild == [path |-> NoPath, compiled |-> NoFile, text |-> NoFile]

\* CodeEditor(): no file_path, an empty document, the caret at its start
NewEditor == Editor(NoPath, EmptyText, 0, 0)

\* the caret positions of a text: a block and an offset in 0..length of the block
Carets(t) == UNION {{<<b, o>> : o \in 0..Len(t[b + 1])} : b \in 0..(Len(t) - 1)}

\* QTextCursor.blockNumber()
blockNumber(e) == e.block

\* start of the visual line that holds offset o of a block of length n:
\* the layout breaks the block every WrapCols characters, and the end of the
\* block belongs to its last visual line
lineStart(n, o) ==
  IF o = n /\ n > 0 THEN ((n - 1) \div WrapCols) * WrapCols
  ELSE (o \div WrapCols) * WrapCols

\* QTextCursor.columnNumber(): the offset of the caret in its visual line
columnNumber(e) == e.pos - lineStart(Len(e.text[e.block + 1]), e.pos)

\* the pushpin emoji U+1F4CD, a surrogate pair in a QString, and the space
\* that open the label
Pin == <<55357, 56525, ord(" ")>>

\* f'<pin> Ln {line}, Col {col}'
LabelText(line, col) ==
  Pin \o Units(<<"L", "n", " ">>) \o str(line)
      \o Units(<<",", " ", "C", "o", "l", " ">>) \o str(col)

\* MainWindow.currentEditor(): None without tabs
HasEditor == current # 0
currentEditor == tabs[current]

\* the text MainWindow.updateCursorPosition gives the label for editor e
updateCursorPosition(e) ==
  LET line == blockNumber(e) + 1
      col == columnNumber(e) + 1
  IN LabelText(line, col)

\* the slot of cursorPositionChanged: the label follows currentEditor(), if any
CursorPositionChanged(ts, cur) ==
  cursorLabel' = IF cur # 0 THEN updateCursorPosition(ts[cur]) ELSE cursorLabel

\* MainWindow.__init__ / setupUI: the label is created, then newFile();
\* the files on disk are whatever the user has
InitWin ==
  /\ tabs = <<NewEditor>>
  /\ current = 1
  /\ cursorLabel = LabelText(1, 1)
  /\ disk \in [Paths -> DocTexts \cup {NoFile}]
  /\ lastBuild = NoBuild
  /\ HLIdle
  /\ EdIdle

\* MainWindow.newFile: the new editor becomes the current tab
newFile ==
  /\ Len(tabs) < MaxTabs
  /\ tabs' = Append(tabs, NewEditor)
  /\ current' = Len(tabs) + 1
  /\ UNCHANGED <<cursorLabel, disk, lastBuild>>
  /\ UNCHANGED hlVars /\ UNCHANGED edVars

\* MainWindow.openFile: the dialog gives an existing file or nothing;
\* setPlainText emits cursorPositionChanged while the new editor is not yet a tab
openFile ==
  \E path \in Paths \cup {NoPath} :
    IF path = NoPath
    THEN UNCHANGED vars
    ELSE /\ disk[path] # NoFile
         /\ Len(tabs) < MaxTabs
         /\ CursorPositionChanged(tabs, current)
         /\ tabs' = Append(tabs, Editor(path, disk[path], 0, 0))
         /\ current' = Len(tabs) + 1
         /\ UNCHANGED <<disk, lastBuild>>
         /\ UNCHANGED hlVars /\ UNCHANGED edVars

\* the effect of MainWindow.saveFile on the tabs and the disk, for the answer
\* of the save dialog (NoPath: cancelled); the dialog is shown only when the
\* editor has no file_path
SaveResult(answer) ==
  LET e == currentEditor
      path == IF e.file_path # NoPath THEN e.file_path ELSE answer
  IN IF ~HasEditor \/ path = NoPath
     THEN [tabs |-> tabs, disk |-> disk]
     ELSE [tabs |-> [tabs EXCEPT ![current].file_path = path],
           disk |-> [disk EXCEPT ![path] = e.text]]

\* MainWindow.saveFile
saveFile ==
  \E answer \in Paths \cup {NoPath} :
    /\ HasEditor
    /\ tabs' = SaveResult(answer).tabs
    /\ disk' = SaveResult(answer).disk
    /\ UNCHANGED <<current, cursorLabel, lastBuild>>
    /\ UNCHANGED hlVars /\ UNCHANGED edVars

\* MainWindow.buildRun: saveFile() only when the editor has no file_path,
\* then gcc on file_path unless it is still unset
buildRun ==
  \E answer \in Paths \cup {NoPath} :
    /\ HasEditor
    /\ LET saved == IF currentEditor.file_path = NoPath
                    THEN SaveResult(answer)
                    ELSE [tabs |-> tabs, disk |-> disk]
           src == saved.tabs[current].file_path
       IN /\ tabs' = saved.tabs
          /\ disk' = saved.disk
          /\ lastBuild' = IF src = NoPath THEN lastBuild
                          ELSE [path |-> src, compiled |-> saved.disk[src],
                                text |-> saved.tabs[current].text]
    /\ UNCHANGED <<current, cursorLabel>>
    /\ UNCHANGED hlVars /\ UNCHANGED edVars

\* tabs without the one at index
RemoveAt(ts, index) == SubSeq(ts, 1, index - 1) \o SubSeq(ts, index + 1, Len(ts))

\* MainWindow.closeTab: removeTab(index); the current widget stays current,
\* and when it is the one removed its right neighbour (else the left) is selected
closeTab ==
  \E index \in 1..Len(tabs) :
    /\ tabs' = RemoveAt(tabs, index)
    /\ current' = IF index < current THEN current - 1
                  ELSE IF current > Len(tabs) - 1 THEN Len(tabs) - 1
                  ELSE current
    /\ UNCHANGED <<cursorLabel, disk, lastBuild>>
    /\ UNCHANGED hlVars /\ UNCHANGED edVars

\* the user selects another tab; nothing is connected to currentChanged
switchTab ==
  \E index \in 1..Len(tabs) :
    /\ index # current
    /\ current' = index
    /\ UNCHANGED <<tabs, cursorLabel, disk, lastBuild>>
    /\ UNCHANGED hlVars /\ UNCHANGED edVars

\* the user moves the caret of the current editor: cursorPositionChanged
moveCaret ==
  \E c \in Carets(IF HasEditor THEN currentEditor.text ELSE <<>>) :
    /\ HasEditor
    /\ c # <<currentEditor.block, currentEditor.pos>>
    /\ tabs' = [tabs EXCEPT ![current].block = c[1], ![current].pos = c[2]]
    /\ CursorPositionChanged(tabs', current)
    /\ UNCHANGED <<current, disk, lastBuild>>
    /\ UNCHANGED hlVars /\ UNCHANGED edVars

\* the user edits the text of the current editor; the caret ends somewhere in
\* the new text: cursorPositionChanged
editText ==
  \E t \in DocTexts : \E c \in Carets(t) :
    /\ HasEditor
    /\ t # currentEditor.text
    /\ tabs' = [tabs EXCEPT ![current].text = t,
                            ![current].block = c[1], ![current].pos = c[2]]
    /\ CursorPositionChanged(tabs', current)
    /\ UNCHANGED <<current, disk, lastBuild>>
    /\ UNCHANGED hlVars /\ UNCHANGED edVars

NextWin ==
  \/ newFile \/ openFile \/ saveFile \/ buildRun
  \/ closeTab \/ switchTab \/ moveCaret \/ editText

SpecWin == InitWin /\ [][NextWin]_vars

----------------------------------------------------------------------------
(* Properties of highlightBlock *)

Done == pc = "done"

WordRules == 1..(Len(kws) + Len(types))

\* the positions of the characters of a match
Span(p, l) == p..(p + l - 1)

\* the number of backslashes that immediately precede position j
BackslashRun(t, j) ==
  LET others == {k \in 0..(j - 1) : t[k + 1] # ord("\\")}
  IN IF others = {} THEN j
     ELSE j - 1 - (CHOOSE k \in others : \A o \in others : o <= k)

\* the character at j is escaped: an odd number of backslashes precedes it
Escaped(t, j) == BackslashRun(t, j) % 2 = 1

\* C1: a keyword or type name followed by ( keeps the Keyword (resp. Type)
\* format on all of its characters once every rule has been applied, and in
\* "int x = sizeof(x);" int is Type, sizeof is Keyword and x has no format.
KeywordPrecedence ==
  Done =>
    /\ \A r \in WordRules : \A p \in 0..(Len(text) - 1) :
         (WordLen(text, p, rules[r].arg) >= 0 /\ Ch(text, p + Len(rules[r].arg)) = ord("("))
           => \A k \in Span(p, Len(rules[r].arg)) : formats[k + 1] = rules[r].fmt
    /\ text = ExKeyword =>
         /\ \A k \in Span(0, 3) : formats[k + 1] = "Type"
         /\ \A k \in Span(8, 6) : formats[k + 1] = "Keyword"
         /\ formats[5] = NoFormat /\ formats[16] = NoFormat

\* the positions where /* starts and a */ follows it
CommentOpens(t) ==
  {p \in 0..(Len(t) - 1) :
     /\ Ch(t, p) = ord("/") /\ Ch(t, p + 1) = ord("*")
     /\ \E q \in (p + 2)..(Len(t) - 1) : Ch(t, q) = ord("*") /\ Ch(t, q + 1) = ord("/")}

\* the position of the nearest */ after the /* at p
NearestClose(t, p) ==
  CHOOSE q \in (p + 2)..(Len(t) - 1) :
    /\ Ch(t, q) = ord("*") /\ Ch(t, q + 1) = ord("/")
    /\ \A o \in (p + 2)..(q - 1) : ~(Ch(t, o) = ord("*") /\ Ch(t, o + 1) = ord("/"))

\* C2: the block-comment rule's match at the first /* of a block that is
\* closed runs to the nearest following */ and no further, and every match
\* of that rule ends at the nearest */ after its start; in
\* "/* a */ int x; /* b */" int stays Type.
BlockCommentExtent ==
  Done =>
    /\ CommentOpens(text) # {} =>
         LET p == CHOOSE o \in CommentOpens(text) : \A o2 \in CommentOpens(text) : o <= o2
         IN \E n \in 1..Len(calls) :
              /\ calls[n].rule = BlockCommentRule
              /\ calls[n].start = p
              /\ calls[n].len = NearestClose(text, p) + 2 - p
    /\ \A n \in 1..Len(calls) :
         calls[n].rule = BlockCommentRule =>
           /\ calls[n].start \in CommentOpens(text)
           /\ calls[n].len = NearestClose(text, calls[n].start) + 2 - calls[n].start
    /\ text = ExTwoComments =>
         /\ \A k \in Span(8, 3) : formats[k + 1] = "Type"
         /\ \A k \in Span(0, 7) : formats[k + 1] = "Comment"

\* the positions where // starts
LineCommentStarts(t) == {p \in 0..(Len(t) - 1) : Ch(t, p) = ord("/") /\ Ch(t, p + 1) = ord("/")}

\* C3: every keyword, type or number match that lies at or after a // of the
\* line has the Comment format once every rule has been applied, and one
\* Comment match covers the line from the first // to its end.
CommentPrecedence ==
  (Done /\ LineCommentStarts(text) # {}) =>
    LET c == CHOOSE o \in LineCommentStarts(text) : \A o2 \in LineCommentStarts(text) : o <= o2
    IN /\ \E n \in 1..Len(calls) :
            /\ calls[n].rule = LineCommentRule
            /\ calls[n].start = c
            /\ calls[n].len = Len(text) - c
       /\ \A r \in WordRules \cup {NumberRule} : \A p \in c..(Len(text) - 1) :
            MatchLenAt(rules[r], text, p) >= 0
              => \A k \in Span(p, MatchLenAt(rules[r], text, p)) : formats[k + 1] = "Comment"

\* C4: every match of the double-quoted string rule starts at a quote and
\* ends at the first quote after it that is not escaped by a backslash: the
\* closing quote is not escaped, and every quote inside the match is.
StringEscaping ==
  \A n \in 1..Len(calls) :
    calls[n].rule = DQuoteRule =>
      LET s == calls[n].start
          e == calls[n].start + calls[n].len - 1
      IN /\ calls[n].len >= 2
         /\ Ch(text, s) = ord("\"") /\ Ch(text, e) = ord("\"")
         /\ ~Escaped(text, e)
         /\ \A j \in (s + 1)..(e - 1) : Ch(text, j) = ord("\"") => Escaped(text, j)

\* a finished run in which a string match holds an escaped quote
StringEscapingWitness ==
  /\ Done
  /\ \E n \in 1..Len(calls) :
       /\ calls[n].rule = DQuoteRule
       /\ \E j \in (calls[n].start + 1)..(calls[n].start + calls[n].len - 2) :
            Ch(text, j) = ord("\"") /\ Ch(text, j - 1) = ord("\\")

\* C5: every (start, length) passed to setFormat lies within the block:
\* 0 <= start and start + length <= len(text).
SpanBounds ==
  \A n \in 1..Len(calls) :
    /\ 0 <= calls[n].start
    /\ calls[n].start + calls[n].len <= Len(text)

\* a finished run with a match that starts the block and one that ends it
SpanBoundsWitness ==
  /\ Done
  /\ \E n \in 1..Len(calls) : calls[n].start = 0
  /\ \E n \in 1..Len(calls) : calls[n].start > 0 /\ calls[n].start + calls[n].len = Len(text)

\* C10: every match has length >= 1, the matches of one rule follow each
\* other without overlap (each starts at or after the end of the one before),
\* so a rule makes at most len(text) matches and the resume offset stays
\* within the text.
MatchesAdvance ==
  /\ \A n \in 1..Len(calls) : calls[n].len >= 1
  /\ \A n \in 2..Len(calls) :
       calls[n].rule = calls[n - 1].rule
         => calls[n].start >= calls[n - 1].start + calls[n - 1].len
  /\ \A r \in 1..NRules :
       Cardinality({n \in 1..Len(calls) : calls[n].rule = r}) <= Len(text)
  /\ idx <= Len(text)

\* a finished run in which one rule matched more than once
MatchesAdvanceWitness ==
  /\ Done
  /\ \E n \in 2..Len(calls) : calls[n].rule = calls[n - 1].rule

----------------------------------------------------------------------------
(* Properties of the gutter *)

\* the number of decimal digits of n >= 1
DecimalDigits(n) == CHOOSE d \in 1..n : 10 ^ (d - 1) <= n /\ n < 10 ^ d

\* C6: the left margin of the viewport is 3 plus the advance of '9' times
\* the number of decimal digits of max(1, blockCount), for the current block
\* count: 1 digit for 9 blocks, 2 digits for 10.
GutterWidthTracksBlockCount ==
  /\ margin = 3 + advance9 * DecimalDigits(IF blockCount < 1 THEN 1 ELSE blockCount)
  /\ blockCount = 9 => margin = 3 + advance9
  /\ blockCount = 10 => margin = 3 + 2 * advance9

\* a tenth block has been appended and the margin has two digits
GutterWidthWitness == blockCount = 10 /\ margin = 3 + 2 * advance9

----------------------------------------------------------------------------
(* Properties of the window *)

\* C7: for the caret (block_index, offset) of the current editor, the text
\* updateCursorPosition produces is "Ln <block_index+1>, Col <offset+1>"
\* (read as the text that follows the pin).
CursorPositionReport ==
  HasEditor =>
    updateCursorPosition(currentEditor)
      = LabelText(currentEditor.block + 1, currentEditor.pos + 1)

\* C8: whenever a tab is open, the label shows blockNumber+1 and
\* columnNumber+1 of the caret of the editor of the current tab.
StatusLabelInSync ==
  HasEditor =>
    cursorLabel = LabelText(blockNumber(currentEditor) + 1, columnNumber(currentEditor) + 1)

\* C9: what gcc was last run on is a file of an editor with a file_path, and
\* the content of that file was the editor's text at that moment.
BuildCompilesSavedText ==
  lastBuild # NoBuild =>
    /\ lastBuild.path # NoPath
    /\ lastBuild.compiled = lastBuild.text

====
